---------------------------- MODULE Spec2Model ----------------------------
(*
  oceanograpy.data.ctd: the metadata operations a base user applies to a
  joined CTD dataset (an xarray.Dataset), as a state machine.

  A dataset is a record
      [attrs |-> ordered dict, vars |-> sequence of variables]
  whose variables are records
      [name |-> string, dims |-> set of dimension names,
       coord |-> BOOLEAN, attrs |-> ordered dict].
  A string is the sequence of its characters, so that re.sub(r'\d', '', s)
  is computed character by character.  An ordered dict is the sequence of
  its <<key, value>> items in insertion order, as a Python dict keeps them.

  State:
      D    the dataset object the caller holds
      pc   the operation that ran last
      arg  the arguments of that call
      old  the dataset as it was before that call
      res  the outcome of that call: "ok", "raise", or the value returned
      clock, written   the wall clock and the file store, for to_netcdf
      log  the to_netcdf calls made so far, oldest first
      schema   the module-level tables of _standard_attrs that the checks read
      printed  the lines printed so far
      ui   the slider and the station dropdown of inspect_profiles
*)
EXTENDS Integers, Sequences, FiniteSets, TLC

VARIABLES D, pc, arg, old, res, clock, written, log, schema, printed, ui

vars == <<D, pc, arg, old, res, clock, written, log, schema, printed, ui>>

\* ------------------------------------------------------------------ bounds

\* Longest mapping / reference ordering handed to _reorder_list.
MaxLen == 3

\* ------------------------------------------------- sequences, dicts, strings

Range(s) == {s[i] : i \in DOMAIN s}

IsInjective(s) == \A i, j \in DOMAIN s : s[i] = s[j] => i = j

\* Duplicate-free sequences over S, of length at most n.
RECURSIVE InjSeqs(_, _)
InjSeqs(S, n) ==
    IF n = 0 THEN {<<>>}
    ELSE LET shorter == InjSeqs(S, n - 1)
             longer == {Append(s, x) : s \in shorter, x \in S}
         IN  shorter \cup {t \in longer : IsInjective(t)}

\* Position of the first occurrence of x in s (0 when absent).
IndexOf(s, x) ==
    IF x \in Range(s) THEN CHOOSE i \in DOMAIN s : s[i] = x /\ \A j \in 1..(i - 1) : s[j] # x
    ELSE 0

\* [f(x) for x in s]
MapSeq(f(_), s) == [i \in DOMAIN s |-> f(s[i])]

\* ------------------------------------------------------------ _reorder_list

\* A reordering that forgets to filter the remaining attributes.
_reorder_list_unfiltered(input_list, ordered_list) ==
    LET existing_attributes == Range(input_list)
        ordered_attributes == SelectSeq(ordered_list, LAMBDA a : a \in existing_attributes)
    IN  ordered_attributes \o input_list

\* A reordering that walks the remaining attributes backwards.
_reorder_list_reversed(input_list, ordered_list) ==
    LET existing_attributes == Range(input_list)
        ordered_attributes == SelectSeq(ordered_list, LAMBDA a : a \in existing_attributes)
        remaining_attributes == SelectSeq(input_list, LAMBDA a : a \notin Range(ordered_attributes))
        n == Len(remaining_attributes)
    IN  ordered_attributes \o [i \in 1..n |-> remaining_attributes[n + 1 - i]]

\* ctd._reorder_list: input_list is iterated (the keys of a dict, or a list).
_reorder_list(input_list, ordered_list) ==
    LET existing_attributes == Range(input_list)
        ordered_attributes == SelectSeq(ordered_list, LAMBDA a : a \in existing_attributes)
        remaining_attributes == SelectSeq(input_list, LAMBDA a : a \notin Range(ordered_attributes))
    IN  ordered_attributes \o remaining_attributes

\* _standard_attrs.global_attrs_ordered: the canonical order of the global
\* attributes (quick_metadata_check removes 'date_created' and
\* 'processing_level' from a copy of it, so both are listed).
global_attrs_ordered == <<"title", "id", "date_created", "processing_level", "history">>

\* _standard_attrs.variable_attrs_ordered: the canonical order of a
\* variable's attributes.
variable_attrs_ordered == <<"standard_name", "long_name", "units", "processing_level">>

\* _standard_attrs.variable_attrs_necessary: the attributes every profile
\* variable needs (quick_metadata_check removes 'processing_level' and
\* 'QC_indicator' from a copy of it for PRES, so both are listed).
variable_attrs_necessary == <<"standard_name", "units", "processing_level", "QC_indicator">>

\* The tables of the _standard_attrs module as the process loads them.
StandardAttrs ==
    [global_attrs_ordered |-> global_attrs_ordered,
     variable_attrs_necessary |-> variable_attrs_necessary]

\* No widget has been created.
NoWidgets == [slider |-> 0, dropdown |-> <<>>, pending |-> <<>>, user |-> <<>>, steps |-> 0]

\* Attribute names handed to _reorder_list as mapping keys and as reference.
ReorderKeys == {"title", "id", "history", "comment"}

NoDataset == [attrs |-> <<>>, vars |-> <<>>]

InitReorder ==
    /\ D = NoDataset
    /\ pc = "start"
    /\ arg \in [input_list : InjSeqs(ReorderKeys, MaxLen),
                ordered_list : InjSeqs(ReorderKeys, MaxLen)]
    /\ old = <<>>
    /\ res = <<>>
    /\ clock = 1
    /\ written = <<>>
    /\ log = <<>>
    /\ schema = StandardAttrs
    /\ printed = <<>>
    /\ ui = NoWidgets

\* reordered = _reorder_list(M, R)
CallReorder ==
    /\ pc = "start"
    /\ pc' = "_reorder_list"
    /\ res' = _reorder_list(arg.input_list, arg.ordered_list)
    /\ UNCHANGED <<D, arg, old, clock, written, log>>
    /\ UNCHANGED <<schema, printed, ui>>

\* _reorder_list(reordered, R): the function applied to its own output.
CallReorderAgain ==
    /\ pc = "_reorder_list"
    /\ pc' = "_reorder_list again"
    /\ arg' = [arg EXCEPT !.input_list = res]
    /\ old' = arg.input_list
    /\ res' = _reorder_list(res, arg.ordered_list)
    /\ UNCHANGED <<D, clock, written, log>>
    /\ UNCHANGED <<schema, printed, ui>>

NextReorder == CallReorder \/ CallReorderAgain

SpecReorder == InitReorder /\ [][NextReorder]_vars

\* out lists exactly the keys M lists, each once: first those R lists, in the
\* order of R, then the others, in the order of M.
IsCanonicalOrder(out, M, R) ==
    /\ Range(out) = Range(M)
    /\ Len(out) = Len(M)
    /\ \A i, j \in DOMAIN out : i < j =>
          /\ out[i] \notin Range(R) => out[j] \notin Range(R)
          /\ (out[i] \in Range(R) /\ out[j] \in Range(R))
                => IndexOf(R, out[i]) < IndexOf(R, out[j])
          /\ (out[i] \notin Range(R) /\ out[j] \notin Range(R))
                => IndexOf(M, out[i]) < IndexOf(M, out[j])

\* C3: _reorder_list(M, R) holds exactly the keys of M, each once; the keys
\* that R lists come first, in the order of R; the keys R does not list
\* follow, in the order they had in M.
C3_ReorderCanonical ==
    pc \in {"_reorder_list", "_reorder_list again"} =>
        IsCanonicalOrder(res, arg.input_list, arg.ordered_list)

\* A mapping with keys inside and outside the reference, which the call moved.
C3_Witness ==
    /\ pc = "_reorder_list"
    /\ \E a, b \in Range(arg.input_list) :
          a \in Range(arg.ordered_list) /\ b \notin Range(arg.ordered_list)
    /\ res # arg.input_list

\* C4: reordering the output of _reorder_list(M, R) with the same R returns
\* that output unchanged.
C4_ReorderFixedPoint ==
    pc = "_reorder_list again" => res = arg.input_list

\* A second call on an output that differs from the original mapping.
C4_Witness ==
    /\ pc = "_reorder_list again"
    /\ old # arg.input_list
    /\ Len(arg.input_list) >= 3
    /\ res = arg.input_list

\* ------------------------------------------------------------------ datasets

\* Most data variables of a dataset whose names are normalised.
MaxNameVars == 3

Digits == {"0", "1", "2", "3", "4", "5", "6", "7", "8", "9"}

TEMP == <<"T", "E", "M", "P">>
PSAL == <<"P", "S", "A", "L">>
PRES == <<"P", "R", "E", "S">>
TIME == <<"T", "I", "M", "E">>
STATION == <<"S", "T", "A", "T", "I", "O", "N">>
LATITUDE == <<"L", "A", "T", "I", "T", "U", "D", "E">>
TEMP1 == TEMP \o <<"1">>
TEMP2 == TEMP \o <<"2">>
PSAL1 == PSAL \o <<"1">>
CHLA1 == <<"C", "H", "L", "A", "1">>

\* A variable of the dataset: D[name], with its dims and its attrs.
Variable(name, dims, coord, attrs) ==
    [name |-> name, dims |-> dims, coord |-> coord, attrs |-> attrs]

\* The coordinate variables of a joined cruise dataset.
Coordinates ==
    <<Variable(TIME, {TIME}, TRUE, <<>>), Variable(PRES, {PRES}, TRUE, <<>>)>>

\* D.data_vars: the variables that are not coordinates, in dataset order.
data_vars(Dx) == SelectSeq(Dx.vars, LAMBDA v : ~v.coord)

\* The names of a sequence of variables.
Names(vs) == [i \in DOMAIN vs |-> vs[i].name]

\* xarray Dataset.rename_vars({k: name}): refuses a name that is not in the
\* dataset and a new name another variable already has; keeps the position.
rename_vars(Dx, k, name) ==
    IF \/ k \notin Range(Names(Dx.vars))
       \/ \E i \in DOMAIN Dx.vars : Dx.vars[i].name # k /\ Dx.vars[i].name = name
    THEN [raised |-> TRUE, D |-> Dx]
    ELSE [raised |-> FALSE,
          D |-> [Dx EXCEPT !.vars = [i \in DOMAIN Dx.vars |->
                    IF Dx.vars[i].name = k
                    THEN [Dx.vars[i] EXCEPT !.name = name]
                    ELSE Dx.vars[i]]]]

\* re.sub(r'\d', '', varnm)
strip_digits(varnm) == SelectSeq(varnm, LAMBDA c : c \notin Digits)

\* [item for item, count in Counter(varnms_stripped).items() if count > 1]
duplicates_of(varnms_stripped) ==
    {varnms_stripped[i] : i \in {j \in DOMAIN varnms_stripped :
        \E k \in DOMAIN varnms_stripped : k # j /\ varnms_stripped[k] = varnms_stripped[j]}}

\* for varnm in all_varnms: if varnm not in duplicates: D = D.rename_vars(...)
\* The first rename_vars that raises ends the loop, and the call.
RECURSIVE strip_names(_, _, _)
strip_names(Dx, varnms, duplicates) ==
    IF varnms = <<>> THEN [raised |-> FALSE, D |-> Dx]
    ELSE IF Head(varnms) \in duplicates
         THEN strip_names(Dx, Tail(varnms), duplicates)
         ELSE LET r == rename_vars(Dx, Head(varnms), strip_digits(Head(varnms)))
              IN  IF r.raised THEN r
                  ELSE strip_names(r.D, Tail(varnms), duplicates)

\* ctd.remove_numbers_in_names
remove_numbers_in_names(Dx) ==
    LET all_varnms == Names(data_vars(Dx))
        varnms_stripped == [i \in DOMAIN all_varnms |-> strip_digits(all_varnms[i])]
        duplicates == duplicates_of(varnms_stripped)
    IN  strip_names(Dx, all_varnms, duplicates)

\* "ok" or "raise", for the res variable.
Outcome(r) == IF r.raised THEN "raise" ELSE "ok"

\* Digit runs put before and after a base name.
Affixes == {<<>>, <<"1">>, <<"2">>}

\* Names a loaded data variable may carry: a base name with digits before
\* or after it.
VarNameUniverse ==
    {pre \o b \o suf : pre \in Affixes, b \in {TEMP, PSAL}, suf \in Affixes}

\* A depth-indexed data variable.
ProfileVar(name) == Variable(name, {TIME, PRES}, FALSE, <<>>)

InitNames ==
    /\ \E ns \in InjSeqs(VarNameUniverse, MaxNameVars) :
          D = [attrs |-> <<>>,
               vars |-> Coordinates \o [i \in DOMAIN ns |-> ProfileVar(ns[i])]]
    /\ pc = "start"
    /\ arg = <<>>
    /\ old = NoDataset
    /\ res = "ok"
    /\ clock = 1
    /\ written = <<>>
    /\ log = <<>>
    /\ schema = StandardAttrs
    /\ printed = <<>>
    /\ ui = NoWidgets

\* D = remove_numbers_in_names(D); an exception leaves the caller's D as it was.
CallRemoveNumbers ==
    /\ pc = "start"
    /\ LET r == remove_numbers_in_names(D)
       IN  /\ D' = IF r.raised THEN D ELSE r.D
           /\ res' = Outcome(r)
    /\ pc' = "remove_numbers_in_names"
    /\ old' = D
    /\ UNCHANGED <<arg, clock, written, log>>
    /\ UNCHANGED <<schema, printed, ui>>

\* A second pass over the dataset the first pass returned.
CallRemoveNumbersAgain ==
    /\ pc = "remove_numbers_in_names"
    /\ res = "ok"
    /\ LET r == remove_numbers_in_names(D)
       IN  /\ D' = IF r.raised THEN D ELSE r.D
           /\ res' = Outcome(r)
    /\ pc' = "remove_numbers_in_names again"
    /\ old' = D
    /\ UNCHANGED <<arg, clock, written, log>>
    /\ UNCHANGED <<schema, printed, ui>>

NextNames == CallRemoveNumbers \/ CallRemoveNumbersAgain

SpecNames == InitNames /\ [][NextNames]_vars

\* Data-variable names of Dx whose digit-stripped form is s.
StrippedTo(Dx, s) == {n \in Range(Names(data_vars(Dx))) : strip_digits(n) = s}

\* C1: when two distinct data-variable names share a digit-stripped form,
\* remove_numbers_in_names completes without error and every name of that
\* colliding group is still the name of the same variable afterwards.
C1_CollidingGroupUnchanged ==
    pc = "remove_numbers_in_names" =>
        \A i \in DOMAIN old.vars :
            (~old.vars[i].coord
             /\ Cardinality(StrippedTo(old, strip_digits(old.vars[i].name))) > 1)
                => res = "ok" /\ D.vars[i].name = old.vars[i].name

\* C2: a data variable whose digit-stripped form no other data variable
\* shares is renamed to that form, and a second pass changes no name.
C2_UniqueRenamedAndIdempotent ==
    /\ pc = "remove_numbers_in_names" =>
          \A i \in DOMAIN old.vars :
              (~old.vars[i].coord
               /\ Cardinality(StrippedTo(old, strip_digits(old.vars[i].name))) = 1)
                  => res = "ok" /\ D.vars[i].name = strip_digits(old.vars[i].name)
    /\ pc = "remove_numbers_in_names again" =>
          res = "ok" /\ Names(D.vars) = Names(old.vars)

\* ------------------------------------------------------------ drop_variables

\* Most data variables of a dataset handed to drop_variables.
MaxDropVars == 3

\* An optional list argument: None, or the list given (as the set of its items:
\* the code uses such a list for membership and truth value only).
None == [given |-> FALSE, names |-> {}]

List(names) == [given |-> TRUE, names |-> names]

\* Python's truth value of an optional list: None and [] are false.
Truthy(list) == list.given /\ list.names # {}

\* xarray Dataset.drop(names): removes the named variables; raises when a
\* name is not a variable of the dataset.
drop(Dx, names) ==
    IF \E n \in names : n \notin Range(Names(Dx.vars))
    THEN [raised |-> TRUE, D |-> Dx]
    ELSE [raised |-> FALSE,
          D |-> [Dx EXCEPT !.vars = SelectSeq(Dx.vars, LAMBDA v : v.name \notin names)]]

\* D[varnm]
Var(Dx, varnm) == Dx.vars[IndexOf(Names(Dx.vars), varnm)]

\* A retain loop that forgets to look at the dimensions.
RECURSIVE drop_unretained_any_dims(_, _, _)
drop_unretained_any_dims(Dx, varnms, retain_vars) ==
    IF varnms = <<>> THEN [raised |-> FALSE, D |-> Dx]
    ELSE IF Head(varnms) \notin retain_vars
         THEN LET r == drop(Dx, {Head(varnms)})
              IN  IF r.raised THEN r
                  ELSE drop_unretained_any_dims(r.D, Tail(varnms), retain_vars)
         ELSE drop_unretained_any_dims(Dx, Tail(varnms), retain_vars)

\* for varnm in all_vars:
\*     if varnm not in retain_vars and 'PRES' in D[varnm].dims: D = D.drop(varnm)
RECURSIVE drop_unretained(_, _, _)
drop_unretained(Dx, varnms, retain_vars) ==
    IF varnms = <<>> THEN [raised |-> FALSE, D |-> Dx]
    ELSE IF Head(varnms) \notin retain_vars /\ PRES \in Var(Dx, Head(varnms)).dims
         THEN LET r == drop(Dx, {Head(varnms)})
              IN  IF r.raised THEN r
                  ELSE drop_unretained(r.D, Tail(varnms), retain_vars)
         ELSE drop_unretained(Dx, Tail(varnms), retain_vars)

\* ctd.drop_variables. retain_vars is the set of the names it lists;
\* drop_vars is None or a list.
drop_variables(Dx, retain_vars, drop_vars) ==
    IF Truthy(drop_vars)
    THEN drop(Dx, drop_vars.names)
    ELSE drop_unretained(Dx, Names(data_vars(Dx)), retain_vars)

\* A variable indexed by cast only, such as STATION or LATITUDE.
ScalarVar(name) == Variable(name, {TIME}, FALSE, <<>>)

\* The data variables a loaded dataset may hold.
DropVarUniverse ==
    {ProfileVar(TEMP1), ProfileVar(PSAL1), ScalarVar(STATION), ScalarVar(LATITUDE)}

\* Names a caller may put in a retain or drop list.
ListNames == {TEMP1, PSAL1, STATION, LATITUDE, CHLA1}

InitDrop ==
    /\ \E vs \in InjSeqs(DropVarUniverse, MaxDropVars) :
          D = [attrs |-> <<>>, vars |-> Coordinates \o vs]
    /\ pc = "start"
    /\ arg = <<>>
    /\ old = NoDataset
    /\ res = "ok"
    /\ clock = 1
    /\ written = <<>>
    /\ log = <<>>
    /\ schema = StandardAttrs
    /\ printed = <<>>
    /\ ui = NoWidgets

\* D = drop_variables(D, retain_vars = ..., drop_vars = ...)
CallDropVariables ==
    /\ pc = "start"
    /\ \E retain_vars \in SUBSET ListNames, drop_vars \in {None} \cup {List(l) : l \in SUBSET ListNames} :
          LET r == drop_variables(D, retain_vars, drop_vars)
          IN  /\ arg' = [retain_vars |-> retain_vars, drop_vars |-> drop_vars]
              /\ D' = IF r.raised THEN D ELSE r.D
              /\ res' = Outcome(r)
    /\ pc' = "drop_variables"
    /\ old' = D
    /\ UNCHANGED <<clock, written, log>>
    /\ UNCHANGED <<schema, printed, ui>>

NextDrop == CallDropVariables

SpecDrop == InitDrop /\ [][NextDrop]_vars

\* A depth-indexed data variable of the dataset.
IsDepthIndexed(v) == ~v.coord /\ PRES \in v.dims

\* C5: with a retain list R and no drop list, drop_variables removes exactly
\* the depth-indexed data variables whose name is not in R: every other
\* variable is still there, as it was and in the same order, whatever R holds.
C5_RetainDropsExactly ==
    (pc = "drop_variables" /\ arg.drop_vars = None) =>
        /\ res = "ok"
        /\ \A v \in Range(old.vars) :
              v \in Range(D.vars) <=> ~(IsDepthIndexed(v) /\ v.name \notin arg.retain_vars)
        /\ Range(D.vars) \subseteq Range(old.vars)
        /\ Len(D.vars) = Cardinality(Range(D.vars))
        /\ \A i, j \in DOMAIN D.vars : i < j =>
              IndexOf(old.vars, D.vars[i]) < IndexOf(old.vars, D.vars[j])
        /\ D.attrs = old.attrs

\* A call that drops one depth-indexed variable, retains another, and meets
\* a scalar variable that the retain list does not name.
C5_Witness ==
    /\ pc = "drop_variables"
    /\ arg.drop_vars = None
    /\ \E u, v, w \in Range(old.vars) :
          /\ IsDepthIndexed(u) /\ u.name \in arg.retain_vars /\ u \in Range(D.vars)
          /\ IsDepthIndexed(v) /\ v.name \notin arg.retain_vars /\ v \notin Range(D.vars)
          /\ ~w.coord /\ PRES \notin w.dims /\ w.name \notin arg.retain_vars
          /\ w \in Range(D.vars)

\* C6: every variable without the depth axis is in the result as it was in
\* the input, with a drop list or with a retain list; and when a drop list
\* is given, an empty one included, the result is the same for every retain
\* list.
C6_ScalarsKeptAndRetainIgnored ==
    (pc = "drop_variables" /\ res = "ok") =>
        /\ \A v \in Range(old.vars) : PRES \notin v.dims => v \in Range(D.vars)
        /\ arg.drop_vars # None =>
              \A other \in SUBSET ListNames :
                  drop_variables(old, other, arg.drop_vars) = [raised |-> FALSE, D |-> D]

\* -------------------------------------------------------------- attributes

\* Most attributes of one attribute dictionary as loaded.
MaxAttrs == 3

\* list(d): the keys of an ordered dict, in insertion order.
Keys(d) == [i \in DOMAIN d |-> d[i][1]]

\* k in d
HasKey(d, k) == k \in Range(Keys(d))

\* d[k]
Get(d, k) == d[IndexOf(Keys(d), k)][2]

\* d[k] = v: an existing key keeps its place, a new key goes last.
SetItem(d, k, v) ==
    IF HasKey(d, k)
    THEN [i \in DOMAIN d |-> IF d[i][1] = k THEN <<k, v>> ELSE d[i]]
    ELSE Append(d, <<k, v>>)

\* new = {}; for attr_name in names: new[attr_name] = attrs_dict[attr_name]
RECURSIVE rebuild_attrs(_, _, _)
rebuild_attrs(new, names, attrs_dict) ==
    IF names = <<>> THEN new
    ELSE rebuild_attrs(SetItem(new, Head(names), Get(attrs_dict, Head(names))),
                       Tail(names), attrs_dict)

\* ctd.reorder_attrs: the global attributes, then those of each variable
\* of D.data_vars.
reorder_attrs(Dx) ==
    [attrs |-> rebuild_attrs(<<>>, _reorder_list(Keys(Dx.attrs), global_attrs_ordered),
                             Dx.attrs),
     vars |-> [i \in DOMAIN Dx.vars |->
                IF Dx.vars[i].coord THEN Dx.vars[i]
                ELSE [Dx.vars[i] EXCEPT !.attrs =
                        rebuild_attrs(<<>>, _reorder_list(Keys(@), variable_attrs_ordered), @)]]]

\* Global attribute names a dataset may carry before it is reordered.
GlobalKeyUniverse == {"id", "title", "comment", "cruise"}

\* Variable attribute names a variable may carry before it is reordered.
VarKeyUniverse == {"units", "standard_name", "sensor"}

\* The attribute dictionary that lists keys, each with a value of its owner.
AttrsOf(owner, keys) == [i \in DOMAIN keys |-> <<keys[i], <<owner, keys[i]>>>>]

InitAttrs ==
    /\ \E g \in InjSeqs(GlobalKeyUniverse, MaxAttrs),
          p \in InjSeqs(VarKeyUniverse, MaxAttrs),
          t \in InjSeqs(VarKeyUniverse, MaxAttrs) :
          D = [attrs |-> AttrsOf("global", g),
               vars |-> <<Variable(TIME, {TIME}, TRUE, <<>>),
                          Variable(PRES, {PRES}, TRUE, AttrsOf(PRES, p)),
                          Variable(TEMP, {TIME, PRES}, FALSE, AttrsOf(TEMP, t))>>]
    /\ pc = "start"
    /\ arg = <<>>
    /\ old = NoDataset
    /\ res = "ok"
    /\ clock = 1
    /\ written = <<>>
    /\ log = <<>>
    /\ schema = StandardAttrs
    /\ printed = <<>>
    /\ ui = NoWidgets

\* D = reorder_attrs(D)
CallReorderAttrs ==
    /\ pc = "start"
    /\ D' = reorder_attrs(D)
    /\ pc' = "reorder_attrs"
    /\ old' = D
    /\ UNCHANGED <<arg, res, clock, written, log>>
    /\ UNCHANGED <<schema, printed, ui>>

NextAttrs == CallReorderAttrs

SpecAttrs == InitAttrs /\ [][NextAttrs]_vars

\* new holds the items of before, in the canonical order for reference R.
IsCanonicalDict(new, before, R) ==
    /\ Range(new) = Range(before)
    /\ IsCanonicalOrder(Keys(new), Keys(before), R)

\* C8: after reorder_attrs the global attribute dictionary and the attribute
\* dictionary of every variable, coordinate variables included, is the
\* canonical reordering of what it was: the same items, the schema's keys
\* first in schema order, the other keys after them in their original order.
C8_AllAttrsCanonical ==
    pc = "reorder_attrs" =>
        /\ IsCanonicalDict(D.attrs, old.attrs, global_attrs_ordered)
        /\ Names(D.vars) = Names(old.vars)
        /\ \A i \in DOMAIN D.vars :
              IsCanonicalDict(D.vars[i].attrs, old.vars[i].attrs, variable_attrs_ordered)

\* ---------------------------------------------------------------- to_netcdf

\* Most to_netcdf calls in one run.
MaxExports == 2

\* The digit characters, by value.
DigitChars == <<"0", "1", "2", "3", "4", "5", "6", "7", "8", "9">>

\* The decimal digits of n, zero-padded to width characters.
RECURSIVE ZeroPad(_, _)
ZeroPad(n, width) ==
    IF width = 0 THEN <<>>
    ELSE ZeroPad(n \div 10, width - 1) \o <<DigitChars[(n % 10) + 1]>>

\* pd.Timestamp.strftime('%Y-%m-%d')
strftime_Ymd(t) ==
    ZeroPad(t.year, 4) \o <<"-">> \o ZeroPad(t.month, 2) \o <<"-">> \o ZeroPad(t.day, 2)

\* time.datetime_to_ISO8601: the timestamp as an ISO-8601 string (the time
\* of day is not modelled).
datetime_to_ISO8601(t) == strftime_Ymd(t) \o <<"T", "0", "0", ":", "0", "0", ":", "0", "0", "Z">>

\* ': Creation of this netcdf file.'
CreationText == <<":", " ", "C", "r", "e", "a", "t", "i", "o", "n", " ", "o", "f", " ", "t", "h", "i", "s", " ", "n", "e", "t", "c", "d", "f", " ", "f", "i", "l", "e", ".">>

\* 'CTD_DATASET_NO_NAME'
CTD_DATASET_NO_NAME == <<"C", "T", "D", "_", "D", "A", "T", "A", "S", "E", "T", "_", "N", "O", "_", "N", "A", "M", "E">>

\* '.nc'
NcSuffix == <<".", "n", "c">>

\* A text is the sequence of its lines: text + '\n' + line.
AppendLine(text, line) == Append(text, line)

\* ctd.add_now_as_date_created
add_now_as_date_created(Dx, now_time) ==
    [Dx EXCEPT !.attrs = SetItem(@, "date_created", datetime_to_ISO8601(now_time))]

\* A history update that replaces the log by the new line.
history_overwritten(history, now_time) ==
    <<strftime_Ymd(now_time) \o CreationText>>

\* D.history + f'\n{now_time}: Creation of this netcdf file.'
history_with_creation(history, now_time) ==
    AppendLine(history, strftime_Ymd(now_time) \o CreationText)

\* An optional string argument: None, or the string given.
NoString == [given |-> FALSE, value |-> <<>>]

String(value) == [given |-> TRUE, value |-> value]

\* to_netcdf with the read of D.id outside any try: no fallback name.
to_netcdf_without_fallback(Dx, path, file_name, convention_check, add_to_history, now_time) ==
    LET D1 == add_now_as_date_created(Dx, now_time)
        D2 == reorder_attrs(D1)
        name == IF ~file_name.given THEN Get(D2.attrs, "id") ELSE file_name.value
        file_path == path \o name \o NcSuffix
    IN  IF \/ ~file_name.given /\ ~HasKey(D2.attrs, "id")
           \/ add_to_history /\ ~HasKey(D2.attrs, "history")
        THEN [raised |-> TRUE, D |-> D2, files |-> <<>>]
        ELSE LET D3 == IF add_to_history
                       THEN [D2 EXCEPT !.attrs = SetItem(@, "history",
                                history_with_creation(Get(D2.attrs, "history"), now_time))]
                       ELSE D2
             IN  [raised |-> FALSE, D |-> D3,
                  files |-> <<[file_path |-> file_path, dataset |-> D3]>>]

\* ctd.to_netcdf, up to and including D.to_netcdf(file_path). D is changed
\* in place, so what was done before an exception stays done. D.id and
\* D.history read the global attribute of that name (no variable of the
\* datasets here is called id or history) and raise when there is none.
to_netcdf(Dx, path, file_name, convention_check, add_to_history, now_time) ==
    LET D1 == add_now_as_date_created(Dx, now_time)
        D2 == reorder_attrs(D1)
        name == IF ~file_name.given
                THEN IF HasKey(D2.attrs, "id") THEN Get(D2.attrs, "id")
                     ELSE CTD_DATASET_NO_NAME
                ELSE file_name.value
        file_path == path \o name \o NcSuffix
    IN  IF add_to_history /\ ~HasKey(D2.attrs, "history")
        THEN [raised |-> TRUE, D |-> D2, files |-> <<>>]
        ELSE LET D3 == IF add_to_history
                       THEN [D2 EXCEPT !.attrs = SetItem(@, "history",
                                history_with_creation(Get(D2.attrs, "history"), now_time))]
                       ELSE D2
             IN  [raised |-> FALSE, D |-> D3,
                  files |-> <<[file_path |-> file_path, dataset |-> D3]>>]

\* The days on which exports are made, in order.
Dates == <<[year |-> 2024, month |-> 3, day |-> 9],
           [year |-> 2024, month |-> 12, day |-> 31]>>

\* History texts a loaded dataset may carry: '', 'raw', 'raw\nqc'.
Histories == {<< <<>> >>, << <<"r", "a", "w">> >>, << <<"r", "a", "w">>, <<"q", "c">> >>}

\* Global attribute names a dataset may carry before it is exported.
ExportKeyUniverse == {"id", "history", "comment"}

\* The value a loaded dataset has for a global attribute other than history.
ExportValue(k) == IF k = "id" THEN <<"c", "t", "d", "7">> ELSE <<"x">>

InitExport ==
    /\ \E g \in InjSeqs(ExportKeyUniverse, MaxAttrs), h \in Histories :
          D = [attrs |-> [i \in DOMAIN g |->
                            <<g[i], IF g[i] = "history" THEN h ELSE ExportValue(g[i])>>],
               vars |-> Coordinates \o
                        <<Variable(TEMP, {TIME, PRES}, FALSE,
                                   AttrsOf(TEMP, <<"units", "sensor", "standard_name">>))>>]
    /\ pc = "start"
    /\ arg = <<>>
    /\ old = NoDataset
    /\ res = "ok"
    /\ clock = 1
    /\ written = <<>>
    /\ log = <<>>
    /\ schema = StandardAttrs
    /\ printed = <<>>
    /\ ui = NoWidgets

\* to_netcdf(D, path, file_name = ..., convention_check = ..., add_to_history = ...)
CallToNetcdf ==
    /\ Len(log) < MaxExports
    /\ \E file_name \in {NoString, String(<<"f">>)},
          convention_check \in BOOLEAN, add_to_history \in BOOLEAN :
          LET a == [path |-> <<"o", "u", "t", "/">>, file_name |-> file_name,
                    convention_check |-> convention_check,
                    add_to_history |-> add_to_history]
              r == to_netcdf(D, a.path, file_name, convention_check, add_to_history,
                             Dates[clock])
          IN  /\ arg' = a
              /\ D' = r.D
              /\ res' = Outcome(r)
              /\ written' = written \o r.files
              /\ log' = Append(log, [before |-> D, arg |-> a, today |-> Dates[clock],
                                     res |-> Outcome(r)])
    /\ pc' = "to_netcdf"
    /\ old' = D
    /\ UNCHANGED clock
    /\ UNCHANGED <<schema, printed, ui>>

\* A day passes.
Tick ==
    /\ clock < Len(Dates)
    /\ clock' = clock + 1
    /\ UNCHANGED <<D, pc, arg, old, res, written, log>>
    /\ UNCHANGED <<schema, printed, ui>>

NextExport == CallToNetcdf \/ Tick

SpecExport == InitExport /\ [][NextExport]_vars

\* The number a run of digit characters writes.
RECURSIVE DigitsValue(_)
DigitsValue(cs) ==
    IF cs = <<>> THEN 0
    ELSE 10 * DigitsValue(SubSeq(cs, 1, Len(cs) - 1)) + (IndexOf(DigitChars, cs[Len(cs)]) - 1)

\* line is 'YYYY-MM-DD: Creation of this netcdf file.' for the day t.
IsCreationLine(line, t) ==
    /\ Len(line) = 10 + Len(CreationText)
    /\ \A i \in {1, 2, 3, 4, 6, 7, 9, 10} : line[i] \in Digits
    /\ line[5] = "-" /\ line[8] = "-"
    /\ DigitsValue(SubSeq(line, 1, 4)) = t.year
    /\ DigitsValue(SubSeq(line, 6, 7)) = t.month
    /\ DigitsValue(SubSeq(line, 9, 10)) = t.day
    /\ SubSeq(line, 11, Len(line)) = CreationText

\* The logged calls that had add_to_history enabled.
HistoryCalls == SelectSeq(log, LAMBDA e : e.arg.add_to_history)

\* C9: on a dataset whose history is H, after any sequence of to_netcdf calls
\* the history is H followed by one line 'YYYY-MM-DD: Creation of this netcdf
\* file.' per call that had add_to_history enabled, in call order and dated
\* with the day of the call; a call with add_to_history disabled leaves the
\* history as it was.
C9_HistoryAppendOnly ==
    (log # <<>> /\ HasKey(log[1].before.attrs, "history")) =>
        LET H == Get(log[1].before.attrs, "history")
            now == Get(D.attrs, "history")
        IN  /\ \A k \in DOMAIN log : log[k].res = "ok"
            /\ HasKey(D.attrs, "history")
            /\ Len(now) = Len(H) + Len(HistoryCalls)
            /\ SubSeq(now, 1, Len(H)) = H
            /\ \A k \in DOMAIN HistoryCalls :
                  IsCreationLine(now[Len(H) + k], HistoryCalls[k].today)
            /\ ~arg.add_to_history =>
                  Get(D.attrs, "history") = Get(old.attrs, "history")

\* Two exports with add_to_history on different days of a dataset with a
\* two-line history.
C9_Witness ==
    /\ Len(HistoryCalls) = 2
    /\ HistoryCalls[1].today # HistoryCalls[2].today
    /\ HasKey(log[1].before.attrs, "history")
    /\ Len(Get(log[1].before.attrs, "history")) = 2
    /\ Len(Get(D.attrs, "history")) = 4

\* The call was made with the default arguments of to_netcdf.
DefaultArguments(a) == ~a.file_name.given /\ ~a.convention_check /\ a.add_to_history

\* C10: to_netcdf with its default arguments does not raise for want of
\* metadata, whatever the dataset: it writes the dataset, and what it writes
\* has a date_created attribute and a history attribute whose last line is
\* the dated creation line.
C10_ExportNeverRaises ==
    (pc = "to_netcdf" /\ DefaultArguments(arg)) =>
        /\ res = "ok"
        /\ written # <<>>
        /\ LET f == written[Len(written)].dataset
           IN  /\ HasKey(f.attrs, "date_created")
               /\ HasKey(f.attrs, "history")
               /\ LET h == Get(f.attrs, "history")
                  IN  IsCreationLine(h[Len(h)], log[Len(log)].today)

\* The to_netcdf calls that reached the write, oldest first.
WritingCalls == SelectSeq(log, LAMBDA e : e.res = "ok")

\* The file name the call e is to use: its file_name argument, else the id
\* attribute of the dataset it was handed, else the fixed literal.
NameToUse(e) ==
    IF e.arg.file_name.given THEN e.arg.file_name.value
    ELSE IF HasKey(e.before.attrs, "id") THEN Get(e.before.attrs, "id")
    ELSE <<"C", "T", "D", "_", "D", "A", "T", "A", "S", "E", "T", "_", "N", "O", "_",
           "N", "A", "M", "E">>

\* C11: every file to_netcdf writes is named path + name + '.nc', where name
\* is the file_name argument when one is given, otherwise the dataset's id
\* attribute when it has one, otherwise 'CTD_DATASET_NO_NAME'; and no call
\* raises for want of an id attribute: a call raises only when it is to
\* extend a history the dataset does not have.
C11_FileNameChoice ==
    /\ Len(written) = Len(WritingCalls)
    /\ \A k \in DOMAIN WritingCalls :
          written[k].file_path =
              WritingCalls[k].arg.path \o NameToUse(WritingCalls[k]) \o <<".", "n", "c">>
    /\ \A k \in DOMAIN log :
          log[k].res = "raise" =>
              log[k].arg.add_to_history /\ ~HasKey(log[k].before.attrs, "history")

\* A dataset with no id attribute, exported with no file_name, was written
\* to out/CTD_DATASET_NO_NAME.nc; the next export of it, with file_name 'f',
\* went to out/f.nc.
C11_Witness ==
    /\ Len(log) = 2
    /\ ~log[1].arg.file_name.given
    /\ ~HasKey(log[1].before.attrs, "id")
    /\ log[2].arg.file_name.given
    /\ Len(written) = 2
    /\ written[1].file_path = <<"o", "u", "t", "/">> \o CTD_DATASET_NO_NAME \o NcSuffix
    /\ written[2].file_path = <<"o", "u", "t", "/", "f", ".", "n", "c">>

\* ------------------------------------------------------ quick_metadata_check

MaxAuditVars == 2

MaxChecks == 2

CHLA == <<"C", "H", "L", "A">>

LONGITUDE == <<"L", "O", "N", "G", "I", "T", "U", "D", "E">>

CRUISE == <<"C", "R", "U", "I", "S", "E">>

\* list.remove(x) on a list that holds x: the list without its first x.
remove(list, x) ==
    LET i == IndexOf(list, x)
    IN  SubSeq(list, 1, i - 1) \o SubSeq(list, i + 1, Len(list))

\* One printed line: a heading, '- [varnm: ]Possibly missing attr' or
\* '- varnm: OK'. The lines about the global attributes have no varnm.
Heading(text) == [varnm |-> <<>>, kind |-> "heading", attr |-> text]

PossiblyMissing(varnm, attr) == [varnm |-> varnm, kind |-> "missing", attr |-> attr]

IsOK(varnm) == [varnm |-> varnm, kind |-> "OK", attr |-> ""]

\* The global part: a copy of global_attrs_ordered without 'date_created' and
\* 'processing_level'; each remove raises ValueError when the name is absent.
global_attrs_to_check(table) ==
    IF "date_created" \notin Range(table)
    THEN [raised |-> TRUE, list |-> table, table |-> table]
    ELSE LET c1 == remove(table, "date_created")
         IN  IF "processing_level" \notin Range(c1)
             THEN [raised |-> TRUE, list |-> c1, table |-> table]
             ELSE [raised |-> FALSE, list |-> remove(c1, "processing_level"),
                   table |-> table]

\* The list of one variable built on variable_attrs_necessary itself, with no
\* copy: what is added and removed is added to and removed from the table.
attrs_to_check_in_place(varnm, table) ==
    LET c1 == IF varnm = CHLA
              THEN table \o <<"calibration_formula", "coefficient_A", "coefficient_B">>
              ELSE table
    IN  IF varnm # PRES THEN [raised |-> FALSE, list |-> c1, table |-> c1]
        ELSE LET c2 == c1 \o <<"axis", "positive">>
             IN  IF "processing_level" \notin Range(c2)
                 THEN [raised |-> TRUE, list |-> c2, table |-> c2]
                 ELSE LET c3 == remove(c2, "processing_level")
                      IN  IF "QC_indicator" \notin Range(c3)
                          THEN [raised |-> TRUE, list |-> c3, table |-> c3]
                          ELSE [raised |-> FALSE, list |-> remove(c3, "QC_indicator"),
                                table |-> remove(c3, "QC_indicator")]

\* The list of one depth-indexed variable: a copy of variable_attrs_necessary,
\* extended for the variable named 'CHLA', extended and cut for 'PRES'. The
\* table the copy was taken of is returned as it was.
attrs_to_check(varnm, table) ==
    LET c1 == IF varnm = CHLA
              THEN table \o <<"calibration_formula", "coefficient_A", "coefficient_B">>
              ELSE table
    IN  IF varnm # PRES THEN [raised |-> FALSE, list |-> c1, table |-> table]
        ELSE LET c2 == c1 \o <<"axis", "positive">>
             IN  IF "processing_level" \notin Range(c2)
                 THEN [raised |-> TRUE, list |-> c2, table |-> table]
                 ELSE LET c3 == remove(c2, "processing_level")
                      IN  IF "QC_indicator" \notin Range(c3)
                          THEN [raised |-> TRUE, list |-> c3, table |-> table]
                          ELSE [raised |-> FALSE, list |-> remove(c3, "QC_indicator"),
                                table |-> table]

\* The lines about one variable: one per attribute of the list that is not
\* in its attrs, or the OK line when any_missing stayed False.
report(varnm, attrs, list) ==
    LET missing == SelectSeq(list, LAMBDA a : ~HasKey(attrs, a))
    IN  IF missing = <<>> THEN <<IsOK(varnm)>>
        ELSE [i \in DOMAIN missing |-> PossiblyMissing(varnm, missing[i])]

\* for varnm in D.variables, from the k-th on: the variables with 'PRES' in
\* their dims are reported.
RECURSIVE check_variables(_, _, _, _)
check_variables(Dx, k, table, lines) ==
    IF k > Len(Dx.vars) THEN [raised |-> FALSE, table |-> table, lines |-> lines]
    ELSE LET v == Dx.vars[k]
         IN  IF PRES \notin v.dims THEN check_variables(Dx, k + 1, table, lines)
             ELSE LET r == attrs_to_check(v.name, table)
                  IN  IF r.raised
                      THEN [raised |-> TRUE, table |-> r.table, lines |-> lines]
                      ELSE check_variables(Dx, k + 1, r.table,
                                           lines \o report(v.name, v.attrs, r.list))

other_dict ==
    << <<LATITUDE, <<"units", "standard_name", "long_name", "axis">>>>,
       <<LONGITUDE, <<"units", "standard_name", "long_name", "axis">>>>,
       <<STATION, <<"cf_role", "long_name">>>>,
       <<CRUISE, <<"long_name">>>> >>

\* for varnm, _attrs_dict_ref_var in other_dict.items(), from the k-th on.
RECURSIVE check_others(_, _)
check_others(Dx, k) ==
    IF k > Len(other_dict) THEN <<>>
    ELSE LET varnm == other_dict[k][1]
         IN  (IF varnm \in Range(Names(Dx.vars))
              THEN report(varnm, Var(Dx, varnm).attrs, other_dict[k][2])
              ELSE <<>>) \o check_others(Dx, k + 1)

\* ctd.quick_metadata_check on the dataset Dx with the _standard_attrs tables
\* S: what it prints, and the dataset and the tables as it leaves them.
quick_metadata_check(Dx, S) ==
    LET top == <<Heading("--  QUICK METADATA CHECK --"),
                 Heading("NOTE: Not comprehensive! A true check is done on export to netcdf."),
                 Heading("# GLOBAL #")>>
        g == global_attrs_to_check(S.global_attrs_ordered)
        S1 == [S EXCEPT !.global_attrs_ordered = g.table]
    IN  IF g.raised THEN [raised |-> TRUE, D |-> Dx, schema |-> S1, lines |-> top]
        ELSE LET missing == SelectSeq(g.list, LAMBDA a : ~HasKey(Dx.attrs, a))
                 glines == [i \in DOMAIN missing |-> PossiblyMissing(<<>>, missing[i])]
                 v == check_variables(Dx, 1, S1.variable_attrs_necessary,
                                      top \o glines \o <<Heading("# VARIABLE #")>>)
                 S2 == [S1 EXCEPT !.variable_attrs_necessary = v.table]
             IN  IF v.raised
                 THEN [raised |-> TRUE, D |-> Dx, schema |-> S2, lines |-> v.lines]
                 ELSE [raised |-> FALSE, D |-> Dx, schema |-> S2,
                       lines |-> v.lines \o check_others(Dx, 1)]

\* Attribute names a variable of a loaded dataset may carry: none, those of
\* variable_attrs_necessary, and those with the calibration attributes.
AuditAttrKeys ==
    {<<>>,
     <<"standard_name", "units", "processing_level", "QC_indicator">>,
     <<"standard_name", "units", "processing_level", "QC_indicator",
       "calibration_formula", "coefficient_A", "coefficient_B">>}

\* Attribute names the PRES coordinate may carry.
PresAttrKeys == {<<"units">>, <<"standard_name", "units", "axis", "positive">>}

\* The STATION variable of the dataset, if any.
StationVars ==
    {<<>>, <<Variable(STATION, {TIME}, FALSE, <<>>)>>,
     <<Variable(STATION, {TIME}, FALSE, AttrsOf(STATION, <<"long_name", "cf_role">>))>>}

\* The names of the profile variables a dataset may hold.
AuditNameUniverse == {TEMP, CHLA, CHLA1}

InitAudit ==
    /\ \E g \in InjSeqs({"title", "history"}, MaxAttrs), p \in PresAttrKeys,
          ns \in InjSeqs(AuditNameUniverse, MaxAuditVars), st \in StationVars :
          \E ks \in [DOMAIN ns -> AuditAttrKeys] :
             D = [attrs |-> AttrsOf(<<>>, g),
                  vars |-> <<Variable(TIME, {TIME}, TRUE, <<>>),
                             Variable(PRES, {PRES}, TRUE, AttrsOf(PRES, p))>>
                           \o [i \in DOMAIN ns |->
                                 Variable(ns[i], {TIME, PRES}, FALSE, AttrsOf(ns[i], ks[i]))]
                           \o st]
    /\ pc = "start"
    /\ arg = <<>>
    /\ old = NoDataset
    /\ res = "ok"
    /\ clock = 1
    /\ written = <<>>
    /\ log = <<>>
    /\ schema = StandardAttrs
    /\ printed = <<>>
    /\ ui = NoWidgets

\* quick_metadata_check(D), in a process whose _standard_attrs tables are
\* those the earlier calls left.
CallQuickMetadataCheck ==
    /\ Len(log) < MaxChecks
    /\ LET r == quick_metadata_check(D, schema)
       IN  /\ D' = r.D
           /\ schema' = r.schema
           /\ printed' = printed \o r.lines
           /\ res' = Outcome(r)
           /\ log' = Append(log, [before |-> D, schema |-> schema, lines |-> r.lines,
                                  res |-> Outcome(r)])
    /\ pc' = "quick_metadata_check"
    /\ old' = D
    /\ arg' = <<>>
    /\ UNCHANGED <<clock, written, ui>>

NextAudit == CallQuickMetadataCheck

SpecAudit == InitAudit /\ [][NextAudit]_vars

\* C12: quick_metadata_check is read-only. After every call the dataset (its
\* variables, its global and variable attribute dictionaries and their
\* order) is the one the call was handed, and the tables
\* global_attrs_ordered and variable_attrs_necessary are those the process
\* loaded; so it is after every one of a series of calls.
C12_AuditReadOnly ==
    /\ schema = StandardAttrs
    /\ \A k \in DOMAIN log :
          /\ log[k].before = D
          /\ log[k].schema = StandardAttrs
    /\ pc = "quick_metadata_check" => D = old

\* Two calls were made on a dataset that holds PRES and CHLA, the two
\* variables a list is extended for, and both printed their report.
C12_Witness ==
    /\ Len(log) = 2
    /\ CHLA \in Range(Names(D.vars))
    /\ PRES \in Range(Names(D.vars))
    /\ log[1].res = "ok" /\ log[2].res = "ok"
    /\ log[2].lines = log[1].lines
    /\ \E i \in DOMAIN printed : printed[i] = PossiblyMissing(CHLA, "coefficient_A")

\* A chlorophyll variable: named CHLA, or CHLA with a numeric suffix.
IsChlorophyll(name) ==
    /\ Len(name) >= 4
    /\ SubSeq(name, 1, 4) = <<"C", "H", "L", "A">>
    /\ \A i \in 5..Len(name) : name[i] \in Digits

\* The attributes a depth-indexed variable is required to carry.
RequiredAttrs(name) ==
    IF name = <<"P", "R", "E", "S">>
    THEN {"standard_name", "units", "axis", "positive"}
    ELSE IF IsChlorophyll(name)
    THEN {"standard_name", "units", "processing_level", "QC_indicator",
          "calibration_formula", "coefficient_A", "coefficient_B"}
    ELSE {"standard_name", "units", "processing_level", "QC_indicator"}

\* How many of the lines are the line l.
Count(lines, l) == Cardinality({i \in DOMAIN lines : lines[i] = l})

\* C13: for every depth-indexed variable, the report of quick_metadata_check
\* has, among the lines about that variable, exactly one 'Possibly missing'
\* line per attribute of the variable's required list that the variable
\* lacks and no other, and exactly one 'OK' line when it lacks none and no
\* 'OK' line otherwise. The required list is the schema's necessary list;
\* for PRES with 'axis' and 'positive' and without 'processing_level' and
\* 'QC_indicator'; for every chlorophyll variable (CHLA, CHLA1, ...) with
\* 'calibration_formula', 'coefficient_A' and 'coefficient_B'.
C13_ReportPerVariable ==
    pc = "quick_metadata_check" =>
        /\ res = "ok"
        /\ \A i \in DOMAIN D.vars :
              LET v == D.vars[i]
                  lines == SelectSeq(log[Len(log)].lines, LAMBDA l : l.varnm = v.name)
                  lacking == {a \in RequiredAttrs(v.name) : ~HasKey(v.attrs, a)}
              IN  <<"P", "R", "E", "S">> \in v.dims =>
                     /\ \A a \in lacking : Count(lines, PossiblyMissing(v.name, a)) = 1
                     /\ Count(lines, IsOK(v.name)) = IF lacking = {} THEN 1 ELSE 0
                     /\ Len(lines) = IF lacking = {} THEN 1 ELSE Cardinality(lacking)

\* The same statement for the variables other than those called CHLA with a
\* numeric suffix: it holds of them.
C13_ExceptSuffixedChlorophyll ==
    pc = "quick_metadata_check" =>
        /\ res = "ok"
        /\ \A i \in DOMAIN D.vars :
              LET v == D.vars[i]
                  lines == SelectSeq(log[Len(log)].lines, LAMBDA l : l.varnm = v.name)
                  lacking == {a \in RequiredAttrs(v.name) : ~HasKey(v.attrs, a)}
              IN  (<<"P", "R", "E", "S">> \in v.dims /\ v.name # CHLA1) =>
                     /\ \A a \in lacking : Count(lines, PossiblyMissing(v.name, a)) = 1
                     /\ Count(lines, IsOK(v.name)) = IF lacking = {} THEN 1 ELSE 0
                     /\ Len(lines) = IF lacking = {} THEN 1 ELSE Cardinality(lacking)

\* ------------------------------------------------------------ calibrate_chl

MaxCoefficient == 2

CHLA1_instr == <<"C", "H", "L", "A", "1", "_", "i", "n", "s", "t", "r">>

\* sub in s
str_contains(s, sub) ==
    \E i \in 1..(Len(s) - Len(sub) + 1) : SubSeq(s, i, i + Len(sub) - 1) = sub

\* s.replace(sub, new), sub not empty: every occurrence, from the left.
RECURSIVE str_replace(_, _, _)
str_replace(s, sub, new) ==
    IF s = <<>> THEN <<>>
    ELSE IF Len(sub) <= Len(s) /\ SubSeq(s, 1, Len(sub)) = sub
    THEN new \o str_replace(SubSeq(s, Len(sub) + 1, Len(s)), sub, new)
    ELSE <<s[1]>> \o str_replace(Tail(s), sub, new)

\* An attribute value: a text or a number.
Text(t) == [text |-> t, number |-> 0]

Number(n) == [text |-> "", number |-> n]

\* A variable with its data; one number stands for the array, arithmetic
\* being elementwise.
DataVariable(name, dims, coord, attrs, values) ==
    [name |-> name, dims |-> dims, coord |-> coord, attrs |-> attrs, values |-> values]

\* D[name] = v: a variable of that name is replaced where it stands, a new
\* one goes last.
setitem(Dx, name, v) ==
    IF name \in Range(Names(Dx.vars))
    THEN [Dx EXCEPT !.vars = [i \in DOMAIN Dx.vars |->
                                 IF Dx.vars[i].name = name THEN v ELSE Dx.vars[i]]]
    ELSE [Dx EXCEPT !.vars = Append(Dx.vars, v)]

\* A * da + B: the data transformed, the dims kept; the attrs kept only under
\* xarray's keep_attrs option.
linear(A, da, B, keep_attrs) ==
    [da EXCEPT !.values = A * @ + B, !.coord = FALSE,
               !.attrs = IF keep_attrs THEN @ ELSE <<>>]

\* The name for the calibrated variable when chl_name_out is None or ''.
default_chl_name_out(chl_name_in) ==
    IF str_contains(chl_name_in, <<"_", "i", "n", "s", "t", "r">>)
    THEN str_replace(chl_name_in, <<"_", "i", "n", "s", "t", "r">>, <<>>)
    ELSE chl_name_in \o <<"_", "c", "a", "l">>

\* The line calibrate_chl prints when verbose.
AddedLine(chl_name_out, chl_name_in, remove_uncal) ==
    [varnm |-> chl_name_out, kind |-> "Added calibrated Chl-A",
     attr |-> IF remove_uncal THEN chl_name_in ELSE <<>>]

\* ctd.calibrate_chl; keep_attrs is the xarray option in force. D[...] = ...
\* changes D in place, so what was done before an exception stays done.
calibrate_chl(Dx, A, B, chl_name_in, chl_name_out, verbose, remove_uncal, keep_attrs) ==
    LET name_out == IF ~chl_name_out.given \/ chl_name_out.value = <<>>
                    THEN default_chl_name_out(chl_name_in)
                    ELSE chl_name_out.value
    IN  IF chl_name_in \notin Range(Names(Dx.vars))
        THEN [raised |-> TRUE, D |-> Dx, lines |-> <<>>]
        ELSE LET cal == [linear(A, Var(Dx, chl_name_in), B, keep_attrs)
                           EXCEPT !.name = name_out]
                 D1 == setitem(Dx, name_out, cal)
                 D2 == setitem(D1, name_out,
                               [Var(D1, name_out) EXCEPT
                                   !.attrs = Var(D1, chl_name_in).attrs])
                 D3 == setitem(D2, name_out,
                          [Var(D2, name_out) EXCEPT !.attrs =
                              SetItem(SetItem(SetItem(SetItem(@,
                                  "long_name", Text("Chlorophyll-A concentration calibrated against water sample measurements")),
                                  "calibration_formula", Text("chla_calibrated = A * chla_from_ctd + B")),
                                  "coefficient_A", Number(A)),
                                  "coefficient_B", Number(B))])
                 d == IF remove_uncal THEN drop(D3, {chl_name_in})
                      ELSE [raised |-> FALSE, D |-> D3]
             IN  IF d.raised THEN [raised |-> TRUE, D |-> D3, lines |-> <<>>]
                 ELSE [raised |-> FALSE, D |-> d.D,
                       lines |-> IF verbose
                                 THEN <<AddedLine(name_out, chl_name_in, remove_uncal)>>
                                 ELSE <<>>]

\* Attribute dictionaries a chlorophyll variable may carry before the call.
CalibAttrs ==
    {<<>>,
     << <<"units", Text("mg m-3")>>, <<"long_name", Text("Chlorophyll-A, uncalibrated")>> >>,
     << <<"coefficient_A", Number(9)>>, <<"units", Text("mg m-3")>> >>}

\* The names of the chlorophyll variables a dataset may hold.
CalibNameUniverse == {CHLA1_instr, CHLA}

InitCalib ==
    /\ \E ns \in InjSeqs(CalibNameUniverse, 2) :
          \E as \in [DOMAIN ns -> CalibAttrs], xs \in [DOMAIN ns -> {3, 5}] :
             D = [attrs |-> <<>>,
                  vars |-> <<DataVariable(TIME, {TIME}, TRUE, <<>>, 0),
                             DataVariable(PRES, {PRES}, TRUE, <<>>, 0)>>
                           \o [i \in DOMAIN ns |->
                                 DataVariable(ns[i], {TIME, PRES}, FALSE, as[i], xs[i])]]
    /\ pc = "start"
    /\ arg = <<>>
    /\ old = NoDataset
    /\ res = "ok"
    /\ clock = 1
    /\ written = <<>>
    /\ log = <<>>
    /\ schema = StandardAttrs
    /\ printed = <<>>
    /\ ui = NoWidgets

\* D = calibrate_chl(D, A, B, chl_name_in = ..., chl_name_out = ...,
\*                   verbose = ..., remove_uncal = ...)
CallCalibrateChl ==
    /\ pc = "start"
    /\ \E A \in 1..MaxCoefficient, B \in 0..1, chl_name_in \in CalibNameUniverse,
          chl_name_out \in {NoString, String(<<>>), String(CHLA), String(CHLA1)},
          verbose \in BOOLEAN, remove_uncal \in BOOLEAN, keep_attrs \in BOOLEAN :
          LET r == calibrate_chl(D, A, B, chl_name_in, chl_name_out, verbose,
                                 remove_uncal, keep_attrs)
          IN  /\ arg' = [A |-> A, B |-> B, chl_name_in |-> chl_name_in,
                         chl_name_out |-> chl_name_out, verbose |-> verbose,
                         remove_uncal |-> remove_uncal, keep_attrs |-> keep_attrs]
              /\ D' = r.D
              /\ res' = Outcome(r)
              /\ printed' = printed \o r.lines
    /\ pc' = "calibrate_chl"
    /\ old' = D
    /\ UNCHANGED <<clock, written, log, schema, ui>>

NextCalib == CallCalibrateChl

SpecCalib == InitCalib /\ [][NextCalib]_vars

\* The name the calibrated variable is to have: the one given, else the
\* input name without '_instr', else the input name with '_cal'.
OutputName(a) ==
    IF a.chl_name_out.given /\ a.chl_name_out.value # <<>> THEN a.chl_name_out.value
    ELSE IF a.chl_name_in = CHLA1_instr THEN <<"C", "H", "L", "A", "1">>
    ELSE a.chl_name_in \o <<"_", "c", "a", "l">>

\* The attributes the calibrated variable is to have: those of the input
\* variable, overlaid by the four calibration attributes.
CalibratedAttrs(attrs, a) ==
    {p \in Range(attrs) : p[1] \notin {"long_name", "calibration_formula",
                                        "coefficient_A", "coefficient_B"}}
    \cup {<<"long_name", Text("Chlorophyll-A concentration calibrated against water sample measurements")>>,
          <<"calibration_formula", Text("chla_calibrated = A * chla_from_ctd + B")>>,
          <<"coefficient_A", Number(a.A)>>, <<"coefficient_B", Number(a.B)>>}

\* What C14 says of a call with the arguments a on the dataset before that
\* returned the dataset after.
Calibrated(before, a, after) ==
    LET input == Var(before, a.chl_name_in)
        names == Range(Names(after.vars))
    IN  /\ OutputName(a) \in names
        /\ Var(after, OutputName(a)).values = a.A * input.values + a.B
        /\ Range(Var(after, OutputName(a)).attrs) = CalibratedAttrs(input.attrs, a)
        /\ Len(Var(after, OutputName(a)).attrs) = Cardinality(CalibratedAttrs(input.attrs, a))
        /\ OutputName(a) # a.chl_name_in => (a.chl_name_in \notin names <=> a.remove_uncal)

\* C14: for every existing input variable and every choice of output name
\* (default-derived or given, the input name included), calibrate_chl
\* returns, and the dataset it returns holds the output variable with the
\* value A * input + B and with the input variable's attributes overlaid by
\* long_name, calibration_formula, coefficient_A = A and coefficient_B = B;
\* the input variable is gone if and only if remove_uncal is set.
C14_CalibratedOutput ==
    (pc = "calibrate_chl" /\ arg.chl_name_in \in Range(Names(old.vars))) =>
        res = "ok" /\ Calibrated(old, arg, D)

\* The same statement for the calls whose output name differs from the
\* input name: it holds of them.
C14_ExceptSameName ==
    (/\ pc = "calibrate_chl"
     /\ arg.chl_name_in \in Range(Names(old.vars))
     /\ OutputName(arg) # arg.chl_name_in) =>
        res = "ok" /\ Calibrated(old, arg, D)

\* ------------------------------------------- ctds_from_cnv_dir, ..._cnv_list

MaxProfiles == 3

MaxCastDay == 3

\* The missing-value marker of a slice no cast supplied (casts count from 1).
NaN == 0

\* The Profile loaded from one .cnv file: the cast timestamp as a scalar, and
\* one variable along PRES per data column, holding the data of that cast.
profile_from_cnv(file) ==
    [attrs |-> <<>>,
     vars |-> <<DataVariable(TIME, {}, FALSE, <<>>, file.start_time)>>
              \o [i \in DOMAIN file.columns |->
                    DataVariable(file.columns[i], {PRES}, FALSE, <<>>, file.cast)]]

\* tools._cnv_files_from_path: the .cnv files of the directory, as listed.
_cnv_files_from_path(dir) == dir

\* tools._datasets_from_cnvlist: one Profile per file, in the order given.
_datasets_from_cnvlist(cnv_list) ==
    [i \in DOMAIN cnv_list |-> profile_from_cnv(cnv_list[i])]

\* The cast timestamp of a Profile.
TimeOf(profile) == Var(profile, TIME).values

\* A join that concatenates the Profiles in input order and does not order
\* the profile axis.
order_by_time_unsorted(profiles, k) == [i \in 1..k |-> i]

\* The first k Profiles in profile-axis order: by cast timestamp, Profiles
\* of one timestamp in input order.
RECURSIVE order_by_time(_, _)
order_by_time(profiles, k) ==
    IF k = 0 THEN <<>>
    ELSE LET s == order_by_time(profiles, k - 1)
             n == Cardinality({i \in DOMAIN s :
                                  TimeOf(profiles[s[i]]) <= TimeOf(profiles[k])})
         IN  SubSeq(s, 1, n) \o <<k>> \o SubSeq(s, n + 1, Len(s))

\* The names of the variables along PRES of the first k Profiles, each once,
\* in order of first appearance.
RECURSIVE union_names(_, _)
union_names(profiles, k) ==
    IF k = 0 THEN <<>>
    ELSE LET s == union_names(profiles, k - 1)
             mine == SelectSeq(Names(profiles[k].vars), LAMBDA n : n # TIME)
         IN  s \o SelectSeq(mine, LAMBDA n : n \notin Range(s))

\* The line of the progress summary.
JoinedLine(n) == [varnm |-> <<>>, kind |-> "joined", attr |-> n]

\* tools.join_cruise: the Cruise Dataset of the Profiles. TIME holds the cast
\* timestamps in profile-axis order; every variable of any Profile has one
\* slice per profile-axis entry, NaN where the Profile lacks the variable.
join_cruise(profile_datasets, verbose) ==
    LET N == Len(profile_datasets)
        order == order_by_time(profile_datasets, N)
        names == union_names(profile_datasets, N)
        slice(name, j) ==
            LET p == profile_datasets[order[j]]
            IN  IF name \in Range(Names(p.vars)) THEN Var(p, name).values ELSE NaN
    IN  [raised |-> FALSE,
         D |-> [attrs |-> <<>>,
                vars |-> <<DataVariable(TIME, {TIME}, TRUE, <<>>,
                              [j \in 1..N |-> TimeOf(profile_datasets[order[j]])]),
                           DataVariable(PRES, {PRES}, TRUE, <<>>, <<>>)>>
                         \o [i \in DOMAIN names |->
                               DataVariable(names[i], {TIME, PRES}, FALSE, <<>>,
                                            [j \in 1..N |-> slice(names[i], j)])]],
         lines |-> IF verbose THEN <<JoinedLine(N)>> ELSE <<>>]

\* ctd.ctds_from_cnv_dir; dir is what the directory at path holds.
ctds_from_cnv_dir(dir, station_from_filename, time_warnings, verbose) ==
    LET cnv_files == _cnv_files_from_path(dir)
        profile_datasets == _datasets_from_cnvlist(cnv_files)
    IN  join_cruise(profile_datasets, verbose)

\* ctd.ctds_from_cnv_list
ctds_from_cnv_list(cnv_list, station_from_filename, time_warnings, verbose) ==
    LET profile_datasets == _datasets_from_cnvlist(cnv_list)
    IN  join_cruise(profile_datasets, verbose)

\* The data columns a .cnv file may hold.
CnvColumns == {<<TEMP1, PSAL1>>, <<TEMP1, PSAL1, CHLA1>>, <<PSAL1>>}

\* The lists of .cnv files handed to the entry points: the k-th file holds
\* the k-th cast, made on some day.
CnvLists ==
    UNION {{[k \in 1..n |-> [cast |-> k, start_time |-> f[k][1], columns |-> f[k][2]]] :
               f \in [1..n -> (1..MaxCastDay) \X CnvColumns]} : n \in 1..MaxProfiles}

InitJoin ==
    /\ D = NoDataset
    /\ pc = "start"
    /\ arg = <<>>
    /\ old = NoDataset
    /\ res = "ok"
    /\ clock = 1
    /\ written = <<>>
    /\ log = <<>>
    /\ schema = StandardAttrs
    /\ printed = <<>>
    /\ ui = NoWidgets

\* D = ctds_from_cnv_dir(path, ...), the directory at path holding files.
CallCtdsFromCnvDir ==
    /\ pc = "start"
    /\ \E files \in CnvLists, verbose \in BOOLEAN :
          LET r == ctds_from_cnv_dir(files, FALSE, TRUE, verbose)
          IN  /\ arg' = [files |-> files, verbose |-> verbose]
              /\ D' = r.D
              /\ res' = Outcome(r)
              /\ printed' = printed \o r.lines
    /\ pc' = "ctds_from_cnv_dir"
    /\ old' = D
    /\ UNCHANGED <<clock, written, log, schema, ui>>

\* D = ctds_from_cnv_list(cnv_list, ...)
CallCtdsFromCnvList ==
    /\ pc = "start"
    /\ \E files \in CnvLists, verbose \in BOOLEAN :
          LET r == ctds_from_cnv_list(files, FALSE, TRUE, verbose)
          IN  /\ arg' = [files |-> files, verbose |-> verbose]
              /\ D' = r.D
              /\ res' = Outcome(r)
              /\ printed' = printed \o r.lines
    /\ pc' = "ctds_from_cnv_list"
    /\ old' = D
    /\ UNCHANGED <<clock, written, log, schema, ui>>

NextJoin == CallCtdsFromCnvDir \/ CallCtdsFromCnvList

SpecJoin == InitJoin /\ [][NextJoin]_vars

\* The variables of Dx along both axes.
JoinedVars(Dx) == {Dx.vars[i] : i \in {j \in DOMAIN Dx.vars : Dx.vars[j].dims = {TIME, PRES}}}

\* p lists the N casts in profile-axis order: by day, casts of one day in
\* input order.
IsAxisOrder(p, files) ==
    /\ Len(p) = Len(files)
    /\ Range(p) = DOMAIN files
    /\ \A i, j \in DOMAIN p :
          i < j => \/ files[p[i]].start_time < files[p[j]].start_time
                   \/ files[p[i]].start_time = files[p[j]].start_time /\ p[i] < p[j]

\* C15: for N input Profiles with variable sets V1..Vn, the dataset returned
\* by ctds_from_cnv_dir and ctds_from_cnv_list is one dataset whose variable
\* set is the union of the Vi and whose TIME axis has exactly N entries,
\* ordered by ascending cast timestamp, ties in input order: entry j holds
\* the timestamp of the j-th cast in that order, and each variable holds at j
\* that cast's data, or the missing-value marker when the cast lacks it.
C15_JoinCompleteness ==
    pc \in {"ctds_from_cnv_dir", "ctds_from_cnv_list"} =>
        LET files == arg.files
            T == Var(D, TIME).values
        IN  /\ res = "ok"
            /\ {v.name : v \in JoinedVars(D)} = UNION {Range(files[k].columns) : k \in DOMAIN files}
            /\ Cardinality(JoinedVars(D)) = Len(D.vars) - 2
            /\ Len(T) = Len(files)
            /\ \A j \in 1..(Len(T) - 1) : T[j] <= T[j + 1]
            /\ \E p \in [DOMAIN files -> DOMAIN files] :
                  /\ IsAxisOrder(p, files)
                  /\ \A j \in DOMAIN T :
                        /\ T[j] = files[p[j]].start_time
                        /\ \A v \in JoinedVars(D) :
                              v.values[j] = IF v.name \in Range(files[p[j]].columns)
                                            THEN p[j] ELSE 0

\* Three casts of days 2, 1, 2, the first alone with CHLA1, were joined: the
\* axis reads 1, 2, 2 and CHLA1 is marked missing but for the first cast,
\* which stands second.
C15_Witness ==
    /\ pc = "ctds_from_cnv_dir"
    /\ Len(arg.files) = 3
    /\ [k \in 1..3 |-> arg.files[k].start_time] = <<2, 1, 2>>
    /\ Var(D, TIME).values = <<1, 2, 2>>
    /\ CHLA1 \in Range(Names(D.vars))
    /\ Var(D, CHLA1).values = <<0, 1, 0>>
    /\ Var(D, PSAL1).values = <<2, 1, 3>>

\* --------------------------------------------------------- inspect_profiles

MaxStations == 3

\* A value of d['STATION'].values: a number or a string, by the array's dtype.
IntStation(n) == [dtype |-> "int", int |-> n, text |-> <<>>]

StrStation(t) == [dtype |-> "str", int |-> 0, text |-> t]

\* str(n) of a number n >= 0: its decimal digits.
RECURSIVE str_int(_)
str_int(n) ==
    IF n < 10 THEN <<DigitChars[n + 1]>>
    ELSE str_int(n \div 10) \o <<DigitChars[(n % 10) + 1]>>

\* str(station)
str(station) == IF station.dtype = "int" THEN str_int(station.int) ELSE station.text

\* station_descriptions = [str(station) for station in d['STATION'].values]
station_descriptions(d) ==
    LET values == Var(d, STATION).values
    IN  [i \in DOMAIN values |-> str(values[i])]

\* The change a widget hands to its observers: the new value of the slider
\* (index) or of the dropdown (text).
SliderChange(index) == [owner |-> "station_index_slider", index |-> index, text |-> <<>>]

DropdownChange(text) == [owner |-> "station_dropdown", index |-> 0, text |-> text]

\* The STATION arrays a dataset may hold: of one dtype, identifiers possibly
\* repeated.
StationArrays ==
    UNION {[1..n -> {IntStation(7), IntStation(12)}] \cup
           [1..n -> {StrStation(<<"A">>), StrStation(<<"B">>)}] : n \in 1..MaxStations}

InitInspect ==
    /\ \E stations \in StationArrays :
          D = [attrs |-> <<>>,
               vars |-> <<DataVariable(TIME, {TIME}, TRUE, <<>>, [i \in DOMAIN stations |-> i]),
                          DataVariable(PRES, {PRES}, TRUE, <<>>, <<>>),
                          DataVariable(TEMP, {TIME, PRES}, FALSE, <<>>, <<>>),
                          DataVariable(STATION, {TIME}, FALSE, <<>>, stations)>>]
    /\ pc = "start"
    /\ arg = <<>>
    /\ old = NoDataset
    /\ res = "ok"
    /\ clock = 1
    /\ written = <<>>
    /\ log = <<>>
    /\ schema = StandardAttrs
    /\ printed = <<>>
    /\ ui = NoWidgets

\* inspect_profiles(d): the slider starts at 0, the station dropdown at the
\* first description; the observers are registered and the box is displayed.
CallInspectProfiles ==
    /\ pc = "start"
    /\ ui' = [slider |-> 0, dropdown |-> station_descriptions(D)[1],
              pending |-> <<>>, user |-> <<>>, steps |-> 0]
    /\ pc' = "displayed"
    /\ UNCHANGED <<D, arg, old, res, clock, written, log, schema, printed>>

\* The user releases the slider at index i. The value trait notifies its
\* observers only when the value changed.
UserSetsSlider ==
    /\ pc = "displayed"
    /\ ui.pending = <<>>
    /\ \E i \in 0..(Len(Var(D, STATION).values) - 1) :
          ui' = [ui EXCEPT !.slider = i,
                           !.pending = IF i # ui.slider THEN <<SliderChange(i)>> ELSE <<>>,
                           !.user = SliderChange(i),
                           !.steps = 0]
    /\ UNCHANGED <<D, pc, arg, old, res, clock, written, log, schema, printed>>

\* The user picks the k-th option of the station dropdown.
UserPicksStation ==
    /\ pc = "displayed"
    /\ ui.pending = <<>>
    /\ \E k \in DOMAIN station_descriptions(D) :
          LET text == station_descriptions(D)[k]
          IN  ui' = [ui EXCEPT !.dropdown = text,
                               !.pending = IF text # ui.dropdown
                                           THEN <<DropdownChange(text)>> ELSE <<>>,
                               !.user = DropdownChange(text),
                               !.steps = 0]
    /\ UNCHANGED <<D, pc, arg, old, res, clock, written, log, schema, printed>>

\* update_dropdown_from_slider(change), called for a change of the slider.
update_dropdown_from_slider ==
    /\ ui.pending # <<>>
    /\ ui.pending[1].owner = "station_index_slider"
    /\ LET station_description == str(Var(D, STATION).values[ui.pending[1].index + 1])
       IN  ui' = [ui EXCEPT !.dropdown = station_description,
                            !.pending = IF station_description # ui.dropdown
                                        THEN <<DropdownChange(station_description)>>
                                        ELSE <<>>,
                            !.steps = @ + 1]
    /\ UNCHANGED <<D, pc, arg, old, res, clock, written, log, schema, printed>>

\* update_slider_from_dropdown(change), called for a change of the dropdown;
\* list.index gives the first position of the description, counted from 0.
update_slider_from_dropdown ==
    /\ ui.pending # <<>>
    /\ ui.pending[1].owner = "station_dropdown"
    /\ LET station_index == IndexOf(station_descriptions(D), ui.pending[1].text) - 1
       IN  ui' = [ui EXCEPT !.slider = station_index,
                            !.pending = IF station_index # ui.slider
                                        THEN <<SliderChange(station_index)>>
                                        ELSE <<>>,
                            !.steps = @ + 1]
    /\ UNCHANGED <<D, pc, arg, old, res, clock, written, log, schema, printed>>

NextInspect ==
    \/ CallInspectProfiles
    \/ UserSetsSlider
    \/ UserPicksStation
    \/ update_dropdown_from_slider
    \/ update_slider_from_dropdown

SpecInspect == InitInspect /\ [][NextInspect]_vars

\* No callback is waiting to run and the user has acted.
Settled == pc = "displayed" /\ ui.pending = <<>> /\ ui.user # <<>>

\* What C16 says of the settled state after the user's last action.
SettledAsTheUserChose ==
    LET stations == Var(D, STATION).values
    IN  IF ui.user.owner = "station_index_slider"
        THEN /\ ui.slider = ui.user.index
             /\ ui.dropdown = str(stations[ui.user.index + 1])
        ELSE /\ ui.dropdown = ui.user.text
             /\ str(stations[ui.slider + 1]) = ui.user.text

\* C16: for every list of station identifiers, repeated ones included, the
\* chain of observer callbacks started by a user action ends (it never runs
\* more than three callbacks), and once it has ended: after the user set the
\* slider to i, the slider is at i and the dropdown shows the identifier of
\* profile i; after the user picked a station, the slider is on a profile
\* that carries the station picked.
C16_ObserversSettle ==
    /\ ui.steps <= 3
    /\ Settled => SettledAsTheUserChose

\* The same statement for the datasets whose station identifiers are all
\* different: it holds of them.
C16_ExceptRepeatedStations ==
    IsInjective(station_descriptions(D)) =>
        /\ ui.steps <= 3
        /\ Settled => SettledAsTheUserChose

\* ---------------------------------------------------- make_publishing_ready

\* Most data variables of a dataset made publishing ready.
MaxPublishVars == 3

\* The value the conventions give attribute k of owner (a variable name, or
\* "global").
StandardValue(owner, k) == <<"standard", owner, k>>

\* conventionalize.add_standard_var_attrs_ctd: sets the standard attributes
\* of every variable, by its name.
add_standard_var_attrs_ctd(Dx) ==
    [Dx EXCEPT !.vars = [i \in DOMAIN Dx.vars |->
        [Dx.vars[i] EXCEPT !.attrs =
            SetItem(SetItem(@, "units", StandardValue(Dx.vars[i].name, "units")),
                    "standard_name", StandardValue(Dx.vars[i].name, "standard_name"))]]]

\* The global attributes add_standard_glob_attrs_ctd fills in.
StandardGlobals(NPI) ==
    IF NPI THEN <<"Conventions", "institution">> ELSE <<"Conventions">>

\* for each standard global attribute: set it if absent, or if override.
RECURSIVE fill_globals(_, _, _)
fill_globals(attrs, names, override) ==
    IF names = <<>> THEN attrs
    ELSE fill_globals(IF override \/ ~HasKey(attrs, Head(names))
                      THEN SetItem(attrs, Head(names), StandardValue("global", Head(names)))
                      ELSE attrs,
                      Tail(names), override)

\* conventionalize.add_standard_glob_attrs_ctd
add_standard_glob_attrs_ctd(Dx, NPI, override) ==
    [Dx EXCEPT !.attrs = fill_globals(@, StandardGlobals(NPI), override)]

\* conventionalize.add_gmdc_keywords_ctd: the fixed CTD discovery keywords.
add_gmdc_keywords_ctd(Dx) ==
    [Dx EXCEPT !.attrs = SetItem(@, "keywords", StandardValue("global", "keywords"))]

\* conventionalize.add_range_attrs_ctd: the coverage attributes, computed
\* from the coordinates.
add_range_attrs_ctd(Dx) ==
    [Dx EXCEPT !.attrs = SetItem(@, "time_coverage_start",
                                 StandardValue("global", "time_coverage_start"))]

\* ctd.make_publishing_ready; an exception in a step ends the call.
make_publishing_ready(Dx, NPI, retain_vars) ==
    LET r1 == drop_variables(Dx, retain_vars, None)
        r2 == remove_numbers_in_names(r1.D)
        D3 == add_standard_var_attrs_ctd(r2.D)
        D4 == add_standard_glob_attrs_ctd(D3, NPI, FALSE)
        D5 == add_gmdc_keywords_ctd(D4)
        D6 == add_range_attrs_ctd(D5)
    IN  IF r1.raised THEN r1
        ELSE IF r2.raised THEN r2
        ELSE [raised |-> FALSE, D |-> reorder_attrs(D6)]

\* The data variables a dataset may hold before it is made publishing ready.
PublishVarUniverse ==
    {Variable(TEMP1, {TIME, PRES}, FALSE, AttrsOf(TEMP1, <<"sensor", "units">>)),
     Variable(TEMP2, {TIME, PRES}, FALSE, AttrsOf(TEMP2, <<"sensor">>)),
     Variable(PSAL1, {TIME, PRES}, FALSE, <<>>),
     Variable(STATION, {TIME}, FALSE, AttrsOf(STATION, <<"long_name">>))}

\* Names a caller may put in the retain list of make_publishing_ready.
RetainNames == {TEMP1, TEMP2, PSAL1, TEMP}

InitPublish ==
    /\ \E vs \in InjSeqs(PublishVarUniverse, MaxPublishVars),
          g \in InjSeqs({"comment", "id"}, MaxAttrs) :
          D = [attrs |-> AttrsOf("global", g), vars |-> Coordinates \o vs]
    /\ pc = "start"
    /\ arg = <<>>
    /\ old = NoDataset
    /\ res = "ok"
    /\ clock = 1
    /\ written = <<>>
    /\ log = <<>>
    /\ schema = StandardAttrs
    /\ printed = <<>>
    /\ ui = NoWidgets

\* D = make_publishing_ready(D, NPI = ..., retain_vars = ...)
CallMakePublishingReady ==
    /\ pc = "start"
    /\ \E NPI \in BOOLEAN, retain_vars \in SUBSET RetainNames :
          LET r == make_publishing_ready(D, NPI, retain_vars)
          IN  /\ arg' = [NPI |-> NPI, retain_vars |-> retain_vars]
              /\ D' = IF r.raised THEN D ELSE r.D
              /\ res' = Outcome(r)
    /\ pc' = "make_publishing_ready"
    /\ old' = D
    /\ UNCHANGED <<clock, written, log>>
    /\ UNCHANGED <<schema, printed, ui>>

\* The same call again, on the dataset the first call returned.
CallMakePublishingReadyAgain ==
    /\ pc = "make_publishing_ready"
    /\ res = "ok"
    /\ LET r == make_publishing_ready(D, arg.NPI, arg.retain_vars)
       IN  /\ D' = IF r.raised THEN D ELSE r.D
           /\ res' = Outcome(r)
    /\ pc' = "make_publishing_ready again"
    /\ old' = D
    /\ UNCHANGED <<arg, clock, written, log>>
    /\ UNCHANGED <<schema, printed, ui>>

NextPublish == CallMakePublishingReady \/ CallMakePublishingReadyAgain

SpecPublish == InitPublish /\ [][NextPublish]_vars

\* C7: a second make_publishing_ready with the same arguments, on the
\* dataset the first returned, returns that dataset again: the same
\* variables, and for the dataset and each variable the same attribute
\* dictionary in the same key order.
C7_PublishingReadyIdempotent ==
    pc = "make_publishing_ready again" => res = "ok" /\ D = old

=============================================================================
